---- MODULE Spec2Model ----
(***************************************************************************)
(* A model of src/convert_to_csvs.py: the keyword classifier               *)
(* (KeywordFilter), the flattener (record_tweet, extract_entities,         *)
(* record_user) and the driver (process_tweet, process_file).              *)
(*                                                                         *)
(* Encoding of Python values:                                              *)
(*   - a str is a sequence of one-character strings;                       *)
(*   - a dict (a decoded JSON object) is a function whose DOMAIN is the    *)
(*     set of keys that are present, so an absent key is really absent;    *)
(*   - a value that may be None is <<>> for None and <<v>> for v;          *)
(*   - the outcome of a call is Ok(v) or Raise(e), e the exception class.  *)
(***************************************************************************)
EXTENDS Integers, Sequences, FiniteSets, TLC

VARIABLES
    pc,             \* where main / process_file stands
    requested,      \* the `filters` argument KeywordFilter.__init__ was given
    keywordfilter,  \* <<>> (None) or <<the KeywordFilter object>>
    file,           \* the input file: a sequence of lines
    lineno,         \* number of lines read so far
    stack,          \* call stack of process_tweet frames, innermost last
    tweets_csv,     \* <<>> (no file) or <<rows>> of  <output>.csv
    users_csv,      \* <<>> (no file) or <<rows>> of  <output>_users.csv
    writes,         \* log of write_record_to_file calls, in call order
    called,         \* log of process_tweet calls: <<line, path>>
    failed,         \* lines whose processing ended in the except clause
    probe           \* last direct call of a function under test, or <<>>

vars == <<pc, requested, keywordfilter, file, lineno, stack,
          tweets_csv, users_csv, writes, called, failed, probe>>

---------------------------------------------------------------------------
(* Bounds of the model.                                                    *)

\* total number of JSON values (tweets, embedded tweets, bad lines) in a file
MaxObjects == 3
\* length of the strings the string checks are explored over
MaxLen == 3
\* size of the keyword lists the string checks are explored over: the
\* characters of the keywords, plus one for each keyword
MaxKeywordChars == 4

---------------------------------------------------------------------------
(* Python values.                                                          *)

None == <<>>
Some(v) == <<v>>

Ok(v) == [exc |-> "none", val |-> v]
Raise(e) == [exc |-> e, val |-> <<>>]
Raised(r) == r.exc # "none"

\* dict.get(key): None when the key is absent
Get(d, k) == IF k \in DOMAIN d THEN Some(d[k]) ELSE None

\* truth value of a list, a dict or None
Truthy(v) == v # <<>>

\* A decoded JSON value that is not an object is a number; only its type matters.
JsonNumber == [json_number |-> 0]
IsDict(v) == "json_number" \notin DOMAIN v

\* str.lower(), one character
LowerChar(c) == IF c = "A" THEN "a" ELSE IF c = "B" THEN "b" ELSE c

\* str.lower()
str_lower(s) == [i \in 1..Len(s) |-> LowerChar(s[i])]

\* term.replace(" ", "")
replace_space(s) == SelectSeq(s, LAMBDA c : c # " ")

\* term in text  (substring test)
str_in(term, text) ==
    \E i \in 0..(Len(text) - Len(term)) :
        SubSeq(text, i + 1, i + Len(term)) = term

\* [f(x) for x in xs]
Range(s) == {s[i] : i \in 1..Len(s)}

---------------------------------------------------------------------------
(* Module constants.                                                       *)

KEYWORD_FIELDS == <<"text", "author", "entities">>

BASIC_FIELDS ==
    <<"timestamp_ms", "in_reply_to_screen_name", "in_reply_to_user_id_str",
      "favorite_count", "quote_count", "coordinates", "favorited", "id_str",
      "text", "in_reply_to_user_id", "place", "geo", "retweet_count",
      "reply_count", "in_reply_to_status_id", "retweeted", "is_quote_status",
      "filter_level", "lang", "in_reply_to_status_id_str", "created_at",
      "source", "contributors">>

USER_FIELDS ==
    <<"statuses_count", "utc_offset", "listed_count", "translator_type",
      "followers_count", "time_zone", "name", "protected", "screen_name",
      "is_translator", "contributors_enabled", "url", "id_str", "location",
      "created_at", "geo_enabled", "description", "lang", "profile_image_url",
      "profile_background_image_url", "favourites_count", "verified",
      "friends_count">>

ENTITY_FIELDS ==
    <<"urls", "user_id_mentions", "user_screenname_mentions", "symbols",
      "hashtags", "media">>

\* ["user.{f}".format(f=field) for field in USER_FIELDS], written out
USER_FIELDS_OUT ==
    <<"user.statuses_count", "user.utc_offset", "user.listed_count",
      "user.translator_type", "user.followers_count", "user.time_zone",
      "user.name", "user.protected", "user.screen_name", "user.is_translator",
      "user.contributors_enabled", "user.url", "user.id_str", "user.location",
      "user.created_at", "user.geo_enabled", "user.description", "user.lang",
      "user.profile_image_url", "user.profile_background_image_url",
      "user.favourites_count", "user.verified", "user.friends_count">>

\* a faulty variant of TWEET_REF_FIELDS: the quoted status comes first
TWEET_REF_FIELDS_swapped == <<"quoted_status", "retweeted_status">>

TWEET_REF_FIELDS == <<"retweeted_status", "quoted_status">>

FIELDNAMES ==
    BASIC_FIELDS \o TWEET_REF_FIELDS \o ENTITY_FIELDS \o <<"user.id_str">>

\* the same lists as sets of keys
BASIC_FIELD_SET == Range(BASIC_FIELDS)
ENTITY_FIELD_SET == Range(ENTITY_FIELDS)
FIELDNAME_SET == Range(FIELDNAMES)
USER_RECORD_KEYS == Range(USER_FIELDS_OUT) \cup {"tweet.created_at"}

\* the USER_FIELDS name that "user.{f}" was formatted from
USER_FIELD_OF ==
    [k \in Range(USER_FIELDS_OUT) |->
        USER_FIELDS[CHOOSE j \in 1..Len(USER_FIELDS) : USER_FIELDS_OUT[j] = k]]

---------------------------------------------------------------------------
(* KeywordFilter.                                                          *)

\* the keys of the FILTERS dict, in insertion order
FILTERS == <<"author", "text", "entities">>

\* KeywordFilter.__init__: the object's attributes
KeywordFilter(keywords, flag, do_filter, filters) ==
    [keywords  |-> keywords,
     flag      |-> flag,
     do_filter |-> do_filter,
     filters   |-> IF Truthy(filters)
                   THEN SelectSeq(FILTERS, LAMBDA f : f \in Range(filters))
                   ELSE FILTERS]

\* a faulty variant of check_author: the keyword is compared as it is
check_author_exact(self, tweet) ==
    IF ~IsDict(tweet) THEN Raise("TypeError")
    ELSE IF "user" \notin DOMAIN tweet THEN Raise("KeyError")
    ELSE IF ~IsDict(tweet["user"]) THEN Raise("TypeError")
    ELSE IF "screen_name" \notin DOMAIN tweet["user"] THEN Raise("KeyError")
    ELSE Ok(\E i \in 1..Len(self.keywords) :
                self.keywords[i] = tweet["user"]["screen_name"])

check_author(self, tweet) ==
    IF ~IsDict(tweet) THEN Raise("TypeError")
    ELSE IF "user" \notin DOMAIN tweet THEN Raise("KeyError")
    ELSE IF ~IsDict(tweet["user"]) THEN Raise("TypeError")
    ELSE IF "screen_name" \notin DOMAIN tweet["user"] THEN Raise("KeyError")
    ELSE LET author == tweet["user"]["screen_name"]
         IN  Ok(\E i \in 1..Len(self.keywords) :
                    replace_space(self.keywords[i]) = author)

\* [h['text'].lower() for h in hashtags]
hashtag_texts(hashtags) ==
    [i \in 1..Len(hashtags) |-> str_lower(hashtags[i]["text"])]

\* [m['screen_name'] for m in mentions]
mention_names(mentions) ==
    [i \in 1..Len(mentions) |-> mentions[i]["screen_name"]]

\* lines 110-115 / 116-121: one extended level, appended when truthy
extended_vals(level) ==
    IF ~Truthy(level) THEN <<>>
    ELSE LET ents == level[1]
             hashtags1 == Get(ents, "hashtags")
             mentions1 == Get(ents, "user_mentions")
         IN  (IF Truthy(hashtags1) /\ Truthy(hashtags1[1])
              THEN hashtag_texts(hashtags1[1]) ELSE <<>>)
             \o
             (IF Truthy(mentions1) /\ Truthy(mentions1[1])
              THEN mention_names(mentions1[1]) ELSE <<>>)

check_entities(self, tweet) ==
    IF ~IsDict(tweet) THEN Raise("AttributeError")
    ELSE
    LET entities == Get(tweet, "entities")
        base_on == Truthy(entities) /\ Truthy(entities[1])
    IN
    IF base_on /\ (   "hashtags" \notin DOMAIN entities[1]
                   \/ "user_mentions" \notin DOMAIN entities[1])
    THEN Raise("TypeError")
    ELSE IF "truncated" \notin DOMAIN tweet THEN Raise("KeyError")
    ELSE IF tweet["truncated"] /\ "extended_tweet" \notin DOMAIN tweet
    THEN Raise("KeyError")
    ELSE
    LET base == IF base_on
                THEN hashtag_texts(entities[1]["hashtags"])
                     \o mention_names(entities[1]["user_mentions"])
                ELSE <<>>
        ext  == IF tweet["truncated"]
                THEN extended_vals(Get(tweet["extended_tweet"], "entities"))
                     \o extended_vals(Get(tweet["extended_tweet"],
                                          "extended_entities"))
                ELSE <<>>
        vals == base \o ext
    IN  Ok(Range(vals) \cap Range(self.keywords) # {})

check_text(self, tweet) ==
    IF ~IsDict(tweet) THEN Raise("TypeError")
    ELSE IF "truncated" \notin DOMAIN tweet THEN Raise("KeyError")
    ELSE IF tweet["truncated"] /\ "extended_tweet" \notin DOMAIN tweet
    THEN Raise("KeyError")
    ELSE IF tweet["truncated"]
            /\ "full_text" \notin DOMAIN tweet["extended_tweet"]
    THEN Raise("KeyError")
    ELSE IF ~tweet["truncated"] /\ "text" \notin DOMAIN tweet
    THEN Raise("KeyError")
    ELSE LET text0 == IF tweet["truncated"]
                      THEN tweet["extended_tweet"]["full_text"]
                      ELSE tweet["text"]
             text == str_lower(text0)
         IN  Ok(\E i \in 1..Len(self.keywords) :
                    str_in(self.keywords[i], text))

\* self.filters[field](tweet)
apply_filter(self, field, tweet) ==
    CASE field = "author"   -> check_author(self, tweet)
      [] field = "text"     -> check_text(self, tweet)
      [] field = "entities" -> check_entities(self, tweet)

\* a faulty variant of check_tweet: every check of FILTERS is called
check_tweet_all(self, tweet) ==
    LET filter_results ==
            [i \in 1..Len(FILTERS) |-> apply_filter(self, FILTERS[i], tweet)]
        raising == {i \in 1..Len(FILTERS) : Raised(filter_results[i])}
    IN  IF raising # {}
        THEN filter_results[CHOOSE i \in raising :
                                \A j \in raising : i <= j]
        ELSE Ok(\E i \in 1..Len(FILTERS) : filter_results[i].val)

\* The list comprehension calls every filter in self.filters, in order; the
\* first one that raises ends the call.
check_tweet(self, tweet) ==
    LET filter_results ==
            [i \in 1..Len(self.filters) |->
                apply_filter(self, self.filters[i], tweet)]
        raising == {i \in 1..Len(self.filters) : Raised(filter_results[i])}
    IN  IF raising # {}
        THEN filter_results[CHOOSE i \in raising :
                                \A j \in raising : i <= j]
        ELSE Ok(\E i \in 1..Len(self.filters) : filter_results[i].val)

\* self.keywords is None: from_file and the callers always pass a list
keywords_is_None(self) == FALSE

\* a faulty variant of decide_write: the test of has_keyword is inverted
decide_write_inverted(self, tweet) ==
    LET has_keyword == check_tweet(self, tweet)
    IN  IF Raised(has_keyword) THEN has_keyword
        ELSE Ok(   keywords_is_None(self)
                \/ (self.do_filter = FALSE)
                \/ (self.do_filter /\ ~has_keyword.val))

decide_write(self, tweet) ==
    LET has_keyword == check_tweet(self, tweet)
    IN  IF Raised(has_keyword) THEN has_keyword
        ELSE Ok(   keywords_is_None(self)
                \/ (self.do_filter = FALSE)
                \/ (self.do_filter /\ has_keyword.val))

---------------------------------------------------------------------------
(* Parsing functions.                                                      *)

\* [x[key] for x in items] when items is a non-empty list, else []
entity_values(entities, kind, key) ==
    LET items == Get(entities, kind)
    IN  IF items # None /\ Len(items[1]) > 0
        THEN [i \in 1..Len(items[1]) |-> items[1][i][key]]
        ELSE <<>>

\* entities is None or <<the entities dict>>
parse_entity_details(entities) ==
    IF entities = None
    THEN [field \in ENTITY_FIELD_SET |-> <<>>]
    ELSE LET e == entities[1]
         IN  [field \in ENTITY_FIELD_SET |->
                CASE field = "urls" -> entity_values(e, "urls", "expanded_url")
                  [] field = "media" -> entity_values(e, "media", "media_url")
                  [] field = "hashtags" -> entity_values(e, "hashtags", "text")
                  [] field = "user_id_mentions" ->
                        entity_values(e, "user_mentions", "id_str")
                  [] field = "user_screenname_mentions" ->
                        entity_values(e, "user_mentions", "screen_name")
                  [] field = "symbols" -> entity_values(e, "symbols", "text")]

\* parsed_entities[field].extend(more[field]) for field in ENTITY_FIELDS
extend_entities(parsed, more) ==
    [field \in ENTITY_FIELD_SET |-> parsed[field] \o more[field]]

extract_entities(tweet) ==
    IF ~IsDict(tweet) THEN Raise("AttributeError")
    ELSE
    LET parsed_entities == parse_entity_details(Get(tweet, "entities"))
    IN  IF Get(tweet, "truncated") # Some(TRUE) THEN Ok(parsed_entities)
        ELSE IF "extended_tweet" \notin DOMAIN tweet
        THEN Raise("AttributeError")
        ELSE
        LET extended == tweet["extended_tweet"]
            entities2 == Get(extended, "entities")
            ext_entities == Get(extended, "extended_entities")
            with2 == IF entities2 # None
                     THEN extend_entities(parsed_entities,
                                          parse_entity_details(entities2))
                     ELSE parsed_entities
        IN  Ok(IF ext_entities # None
               THEN extend_entities(with2, parse_entity_details(ext_entities))
               ELSE with2)

record_user(tweet) ==
    IF ~IsDict(tweet) THEN Raise("AttributeError")
    ELSE IF "user" \notin DOMAIN tweet THEN Raise("AttributeError")
    ELSE IF ~IsDict(tweet["user"]) THEN Raise("AttributeError")
    ELSE
    LET user == tweet["user"]
    IN  Ok([k \in USER_RECORD_KEYS |->
               IF k = "tweet.created_at" THEN Get(tweet, "created_at")
               ELSE Get(user, USER_FIELD_OF[k])])

\* line 215: ref.get("id_str")
ref_id(tweet, field) == Get(tweet[field], "id_str")

\* the value is [record |-> the flat record, refs |-> the embedded tweets]
record_tweet(tweet) ==
    IF ~IsDict(tweet) THEN Raise("AttributeError")
    ELSE
    LET truncated == Get(tweet, "truncated") = Some(TRUE)
        entities == extract_entities(tweet)
        present == SelectSeq(TWEET_REF_FIELDS, LAMBDA f : f \in DOMAIN tweet)
    IN  IF truncated /\ "extended_tweet" \notin DOMAIN tweet
        THEN Raise("AttributeError")
        ELSE IF Raised(entities) THEN entities
        ELSE IF \E f \in Range(present) : ~IsDict(tweet[f])
        THEN Raise("AttributeError")
        ELSE
        Ok([record |->
               [field \in FIELDNAME_SET |->
                   IF field = "text" /\ truncated
                   THEN Get(tweet["extended_tweet"], "full_text")
                   ELSE IF field \in BASIC_FIELD_SET
                   THEN Get(tweet, field)
                   ELSE IF field \in ENTITY_FIELD_SET
                   THEN entities.val[field]
                   ELSE IF field \in Range(present)
                   THEN ref_id(tweet, field)
                   ELSE None],
            refs |-> [i \in 1..Len(present) |-> tweet[present[i]]]])

---------------------------------------------------------------------------
(* Writing functions.                                                      *)

\* what csv.DictWriter writes for one value: '' for None and for a missing
\* key, the text of a str, str(True) / str(False), and the repr of a list
\* (kept apart from a str by its tag)
csv_cell(record, field, keywordflag) ==
    IF field \notin DOMAIN record THEN <<>>
    ELSE IF field \in ENTITY_FIELD_SET THEN <<"list", record[field]>>
    ELSE IF field = keywordflag
    THEN (IF record[field] THEN <<"T", "r", "u", "e">>
          ELSE <<"F", "a", "l", "s", "e">>)
    ELSE IF record[field] = None THEN <<>>
    ELSE record[field][1]

\* the columns write_record_to_file gives the DictWriter
fieldnames_of(is_user, keywordflag) ==
    IF is_user THEN USER_FIELDS_OUT
    ELSE IF keywordflag # "" THEN FIELDNAMES \o <<keywordflag>>
    ELSE FIELDNAMES

\* the row appended to the file; extrasaction='ignore' drops other keys
csv_row(record, is_user, keywordflag) ==
    [field \in Range(fieldnames_of(is_user, keywordflag)) |->
        csv_cell(record, field, IF is_user THEN "" ELSE keywordflag)]

\* the file after write_record_to_file: created on the first write
write_record_to_file(csv, record, is_user, keywordflag) ==
    IF csv = None THEN Some(<<csv_row(record, is_user, keywordflag)>>)
    ELSE Some(Append(csv[1], csv_row(record, is_user, keywordflag)))

\* DataFrame.drop_duplicates(): the first of equal rows is kept
drop_duplicates(rows) ==
    LET keep == {i \in 1..Len(rows) : \A j \in 1..(i - 1) : rows[j] # rows[i]}
        RECURSIVE pick(_)
        pick(i) == IF i > Len(rows) THEN <<>>
                   ELSE IF i \in keep THEN <<rows[i]>> \o pick(i + 1)
                   ELSE pick(i + 1)
    IN  pick(1)

\* os.path.isfile(filename) guards the call
deduplicate_file(csv) ==
    IF csv = None THEN None ELSE Some(drop_duplicates(csv[1]))

---------------------------------------------------------------------------
(* process_tweet.                                                          *)

\* a faulty variant of write_record: the classifier's decision is not used
write_record_always(kf, tweet) == Ok(TRUE)

\* lines 239-244: Ok(TRUE) to write, Ok(FALSE) to drop, or the exception
write_record(kf, tweet) ==
    IF kf = None THEN Ok(TRUE) ELSE decide_write(kf[1], tweet)

\* lines 241 / 244; "" stands for both None and the empty name
keyword_flag(kf) == IF kf = None THEN "" ELSE kf[1].flag

\* a faulty variant of flatten: the flag is the decision, not the match
flatten_flag_decision(kf, tweet) ==
    LET rt == record_tweet(tweet)
        ur == record_user(tweet)
    IN  IF Raised(rt) THEN rt
        ELSE IF Raised(ur) THEN ur
        ELSE
        LET flag_part == IF keyword_flag(kf) # ""
                         THEN keyword_flag(kf) :> write_record(kf, tweet).val
                         ELSE <<>>
            record == [rt.val.record EXCEPT
                          !["user.id_str"] = ur.val["user.id_str"]]
        IN  Ok([record |-> flag_part @@ record,
                user_record |-> ur.val,
                refs |-> rt.val.refs])

\* a faulty variant of flatten: the owner's id is not copied to the record
flatten_no_owner(kf, tweet) ==
    LET rt == record_tweet(tweet)
        flagged == check_tweet(kf[1], tweet)
        ur == record_user(tweet)
    IN  IF Raised(rt) THEN rt
        ELSE IF keyword_flag(kf) # "" /\ Raised(flagged) THEN flagged
        ELSE IF Raised(ur) THEN ur
        ELSE
        LET flag_part == IF keyword_flag(kf) # ""
                         THEN keyword_flag(kf) :> flagged.val
                         ELSE <<>>
        IN  Ok([record |-> flag_part @@ rt.val.record,
                user_record |-> ur.val,
                refs |-> rt.val.refs])

\* lines 246-250: Ok([record, user_record, refs]) or the exception raised
flatten(kf, tweet) ==
    LET rt == record_tweet(tweet)
        flagged == check_tweet(kf[1], tweet)
        ur == record_user(tweet)
    IN  IF Raised(rt) THEN rt
        ELSE IF keyword_flag(kf) # "" /\ Raised(flagged) THEN flagged
        ELSE IF Raised(ur) THEN ur
        ELSE
        LET flag_part == IF keyword_flag(kf) # ""
                         THEN keyword_flag(kf) :> flagged.val
                         ELSE <<>>
            record == [rt.val.record EXCEPT
                          !["user.id_str"] = ur.val["user.id_str"]]
        IN  Ok([record |-> flag_part @@ record,
                user_record |-> ur.val,
                refs |-> rt.val.refs])

\* the names of the reference fields record_tweet found, in its order
ref_fields(tweet) ==
    SelectSeq(TWEET_REF_FIELDS, LAMBDA f : f \in DOMAIN tweet)

\* a faulty variant of rest_refs: the loop ends after the first reference
rest_refs_first_only(refs) == <<>>

\* a faulty variant of rest_refs: the loop does not advance
rest_refs_stuck(refs) == refs

\* for ref in refs: the references still to visit after the first one
rest_refs(refs) == Tail(refs)

---------------------------------------------------------------------------
(* Input: tweets, lines and files.                                         *)

str_a == <<"a">>
str_b == <<"b">>

\* a user object and three tweet objects without references: one whose text
\* holds the keyword "a", one whose text does not, one with no user object
user_1 == [id_str |-> <<"7">>, screen_name |-> str_b]
TweetHit == [id_str |-> <<"1">>, text |-> str_a, truncated |-> FALSE,
             user |-> user_1]
TweetMiss == [id_str |-> <<"2">>, text |-> str_b, truncated |-> FALSE,
              user |-> user_1]
TweetNoUser == [id_str |-> <<"3">>, text |-> str_a, truncated |-> FALSE]
BaseTweets == {TweetHit, TweetMiss, TweetNoUser}

\* the sets S[n] of tweets that hold n tweet objects, embedded ones counted
RECURSIVE TweetsOfSize(_)
TweetsOfSize(n) ==
    IF n = 0 THEN {}
    ELSE IF n = 1 THEN BaseTweets
    ELSE LET with_rt == {b @@ ("retweeted_status" :> r) :
                            b \in BaseTweets, r \in TweetsOfSize(n - 1)}
             with_qt == {b @@ ("quoted_status" :> q) :
                            b \in BaseTweets, q \in TweetsOfSize(n - 1)}
             with_both ==
                UNION {{b @@ ("retweeted_status" :> r)
                          @@ ("quoted_status" :> q) :
                            b \in BaseTweets, r \in TweetsOfSize(k),
                            q \in TweetsOfSize(n - 1 - k)} :
                       k \in 1..(n - 2)}
         IN  with_rt \cup with_qt \cup with_both

\* number of tweet objects in a tweet
RECURSIVE SizeOf(_)
SizeOf(tweet) ==
    IF ~IsDict(tweet) THEN 1
    ELSE 1 + (IF "retweeted_status" \in DOMAIN tweet
              THEN SizeOf(tweet["retweeted_status"]) ELSE 0)
           + (IF "quoted_status" \in DOMAIN tweet
              THEN SizeOf(tweet["quoted_status"]) ELSE 0)

\* A line of the file: text that json.loads decodes to `value`, or text it
\* rejects.
GarbageLine == [valid |-> FALSE, value |-> <<>>]
NumberLine == [valid |-> TRUE, value |-> JsonNumber]
LinesOfSize(n) ==
    {[valid |-> TRUE, value |-> t] : t \in TweetsOfSize(n)}
        \cup (IF n = 1 THEN {GarbageLine, NumberLine} ELSE {})

\* the files whose lines hold n JSON values in all
RECURSIVE FilesOfSize(_)
FilesOfSize(n) ==
    IF n = 0 THEN {<<>>}
    ELSE UNION {{<<l>> \o f : l \in LinesOfSize(k), f \in FilesOfSize(n - k)} :
                k \in 1..n}

Files == UNION {FilesOfSize(n) : n \in 0..MaxObjects}

json_loads(line) ==
    IF line.valid THEN Ok(line.value) ELSE Raise("JSONDecodeError")

\* the arguments main gives KeywordFilter: the keyword "a", all checks or
\* the text check alone, filtering or annotating
KeywordArgs ==
    {[keywords |-> <<str_a>>, flag |-> "contains_keyword",
      do_filter |-> d, filters |-> f] :
        d \in BOOLEAN, f \in {KEYWORD_FIELDS, <<"text">>}}

---------------------------------------------------------------------------
(* main and process_file.                                                  *)

Init ==
    /\ pc = "main"
    /\ requested = None
    /\ keywordfilter = None
    /\ file \in Files
    /\ lineno = 0
    /\ stack = <<>>
    /\ tweets_csv = None
    /\ users_csv = None
    /\ writes = <<>>
    /\ called = <<>>
    /\ failed = {}
    /\ probe = None

\* main, lines 332-333: a keyword file is given
Construct(args) ==
    /\ pc = "main"
    /\ requested' = args.filters
    /\ keywordfilter' = Some(KeywordFilter(args.keywords, args.flag,
                                           args.do_filter, args.filters))
    /\ pc' = "process_file"
    /\ UNCHANGED <<file, lineno, stack, tweets_csv, users_csv, writes,
                   called, failed, probe>>

\* main, lines 334-335: no keyword file
NoKeywordFile ==
    /\ pc = "main"
    /\ keywordfilter' = None
    /\ pc' = "process_file"
    /\ UNCHANGED <<requested, file, lineno, stack, tweets_csv, users_csv,
                   writes, called, failed, probe>>

\* the frame of a call process_tweet(tweet, ...); path names the tweet in
\* its line: the reference fields that lead to it from the line's tweet
Frame(tweet, path) ==
    [tweet |-> tweet, path |-> path, at |-> "enter", refs |-> <<>>]

\* a faulty variant of except_handler: the exception leaves process_file
except_propagates(line) ==
    /\ stack' = <<>>
    /\ failed' = failed \cup {line}
    /\ pc' = "done"

\* a faulty variant of except_handler: the exception is caught around one
\* call of process_tweet, and the caller of that call goes on
except_handler_per_tweet(line) ==
    /\ stack' = SubSeq(stack, 1, Len(stack) - 1)
    /\ failed' = failed \cup {line}
    /\ pc' = IF Len(stack) <= 1 THEN "process_file" ELSE "process_tweet"

\* the except clause of process_file: the line is given up, the loop goes on
except_handler(line) ==
    /\ stack' = <<>>
    /\ failed' = failed \cup {line}
    /\ pc' = "process_file"

\* process_file, lines 266-272: the next line is decoded and process_tweet
\* is called on it
ReadLine ==
    /\ pc = "process_file"
    /\ lineno < Len(file)
    /\ lineno' = lineno + 1
    /\ LET tweet == json_loads(file[lineno + 1])
       IN  IF Raised(tweet)
           THEN /\ except_handler(lineno + 1)
                /\ UNCHANGED called
           ELSE /\ stack' = <<Frame(tweet.val, <<>>)>>
                /\ called' = Append(called, <<lineno + 1, <<>>>>)
                /\ pc' = "process_tweet"
                /\ UNCHANGED failed
    /\ UNCHANGED <<requested, keywordfilter, file, tweets_csv, users_csv,
                   writes, probe>>

Top == stack[Len(stack)]
Pop == SubSeq(stack, 1, Len(stack) - 1)

\* the caller resumes: process_file's loop when the outermost call returns
Resume(frames) ==
    /\ stack' = frames
    /\ pc' = IF frames = <<>> THEN "process_file" ELSE "process_tweet"

\* process_tweet, lines 239-252: the decision, the flattening and the two
\* writes of one call
Enter ==
    /\ pc = "process_tweet"
    /\ Top.at = "enter"
    /\ \E tweet \in {Top.tweet} :
       \E decision \in {write_record(keywordfilter, tweet)} :
       \E flat \in {flatten(keywordfilter, tweet)} :
       \E flag \in {keyword_flag(keywordfilter)} :
           IF Raised(decision)
           THEN /\ except_handler(lineno)
                /\ UNCHANGED <<tweets_csv, users_csv, writes>>
           ELSE IF ~decision.val
           THEN /\ Resume(Pop)
                /\ UNCHANGED <<tweets_csv, users_csv, writes, failed>>
           ELSE IF Raised(flat)
           THEN /\ except_handler(lineno)
                /\ UNCHANGED <<tweets_csv, users_csv, writes>>
           ELSE /\ tweets_csv' = write_record_to_file(
                                    tweets_csv, flat.val.record, FALSE, flag)
                /\ users_csv' = write_record_to_file(
                                    users_csv, flat.val.user_record, TRUE, flag)
                /\ writes' = writes \o
                       <<[is_user |-> FALSE, line |-> lineno,
                          path |-> Top.path],
                         [is_user |-> TRUE, line |-> lineno,
                          path |-> Top.path]>>
                /\ stack' = [stack EXCEPT ![Len(stack)] =
                                [@ EXCEPT !.at = "refs",
                                          !.refs = flat.val.refs]]
                /\ UNCHANGED <<pc, failed>>
    /\ UNCHANGED <<requested, keywordfilter, file, lineno, called, probe>>

\* process_tweet, lines 254-255: the call on the next reference
Recurse ==
    /\ pc = "process_tweet"
    /\ Top.at = "refs"
    /\ Top.refs # <<>>
    /\ LET done == Len(ref_fields(Top.tweet)) - Len(Top.refs)
           field == ref_fields(Top.tweet)[done + 1]
           path == Append(Top.path, field)
       IN  /\ stack' = Append(
                 [stack EXCEPT ![Len(stack)] =
                     [@ EXCEPT !.refs = rest_refs(Top.refs)]],
                 Frame(Head(Top.refs), path))
           /\ called' = Append(called, <<lineno, path>>)
    /\ UNCHANGED <<pc, requested, keywordfilter, file, lineno, tweets_csv,
                   users_csv, writes, failed, probe>>

\* process_tweet returns when its loop is over
Return ==
    /\ pc = "process_tweet"
    /\ Top.at = "refs"
    /\ Top.refs = <<>>
    /\ Resume(Pop)
    /\ UNCHANGED <<requested, keywordfilter, file, lineno, tweets_csv,
                   users_csv, writes, called, failed, probe>>

\* process_file, lines 273-278: after the last line, both files are
\* deduplicated
Deduplicate ==
    /\ pc = "process_file"
    /\ lineno = Len(file)
    /\ tweets_csv' = deduplicate_file(tweets_csv)
    /\ users_csv' = deduplicate_file(users_csv)
    /\ pc' = "done"
    /\ UNCHANGED <<requested, keywordfilter, file, lineno, stack, writes,
                   called, failed, probe>>

Next ==
    \/ \E args \in KeywordArgs : Construct(args)
    \/ NoKeywordFile
    \/ ReadLine
    \/ Enter
    \/ Recurse
    \/ Return
    \/ Deduplicate

Spec == Init /\ [][Next]_vars

---------------------------------------------------------------------------
(* process_file on one line, a tweet of a wrong shape among its tweets.    *)

\* a tweet whose user member is a number, not an object
TweetBadUser == [id_str |-> <<"4">>, text |-> str_a, truncated |-> FALSE,
                 user |-> JsonNumber]
ShapeTweets == BaseTweets \cup {TweetBadUser}

\* the tweets that hold n tweet objects, each of them one of `base` with
\* the tweets it embeds
RECURSIVE NestedTweets(_, _)
NestedTweets(base, n) ==
    IF n = 0 THEN {}
    ELSE IF n = 1 THEN base
    ELSE LET with_rt == {b @@ ("retweeted_status" :> r) :
                            b \in base, r \in NestedTweets(base, n - 1)}
             with_qt == {b @@ ("quoted_status" :> q) :
                            b \in base, q \in NestedTweets(base, n - 1)}
             with_both ==
                UNION {{b @@ ("retweeted_status" :> r)
                          @@ ("quoted_status" :> q) :
                            b \in base, r \in NestedTweets(base, k),
                            q \in NestedTweets(base, n - 1 - k)} :
                       k \in 1..(n - 2)}
         IN  with_rt \cup with_qt \cup with_both

\* the files of one line that decodes to a tweet of at most MaxObjects
\* tweet objects
ShapeFiles ==
    {<<[valid |-> TRUE, value |-> t]>> :
        t \in UNION {NestedTweets(ShapeTweets, n) : n \in 1..MaxObjects}}

InitShapes ==
    /\ pc = "main"
    /\ requested = None
    /\ keywordfilter = None
    /\ file \in ShapeFiles
    /\ lineno = 0
    /\ stack = <<>>
    /\ tweets_csv = None
    /\ users_csv = None
    /\ writes = <<>>
    /\ called = <<>>
    /\ failed = {}
    /\ probe = None

SpecShapes == InitShapes /\ [][Next]_vars

---------------------------------------------------------------------------
(* Direct calls of the classifier and of the flattener.                    *)

\* the strings of at most n characters of chars
Strings(chars, n) == UNION {[1..k -> chars] : k \in 0..n}

\* the keyword lists of size at most w: a keyword of n characters counts
\* for n + 1
RECURSIVE ListsOfSize(_, _)
ListsOfSize(chars, w) ==
    {<<>>} \cup
    UNION {{<<k>> \o rest : rest \in ListsOfSize(chars, w - 1 - Len(k))} :
           k \in Strings(chars, w - 1)}

KeywordLists(chars) == ListsOfSize(chars, MaxKeywordChars)

\* {} or {key: v} for each v of vals, as dicts
OptKey(key, vals) == {<<>>} \cup {key :> v : v \in vals}

\* everything but the call under test stands still
Idle ==
    UNCHANGED <<pc, requested, keywordfilter, file, lineno, stack,
                tweets_csv, users_csv, writes, called, failed>>

\* the state process_file finds when main has built `kf`, on an empty file
InitWith(kf, filters) ==
    /\ pc = "process_file"
    /\ requested = filters
    /\ keywordfilter = kf
    /\ file = <<>>
    /\ lineno = 0
    /\ stack = <<>>
    /\ tweets_csv = None
    /\ users_csv = None
    /\ writes = <<>>
    /\ called = <<>>
    /\ failed = {}
    /\ probe = None

\* process_tweet's decision (lines 239-244) on one tweet
ProbeRetain(tweet) ==
    /\ pc = "process_file"
    /\ probe = None
    /\ probe' = Some([fn |-> "write_record", tweet |-> tweet,
                      result |-> write_record(keywordfilter, tweet)])
    /\ Idle

\* KeywordFilter.check_tweet on one tweet
ProbeMatches(tweet) ==
    /\ pc = "process_file"
    /\ keywordfilter # None
    /\ probe = None
    /\ probe' = Some([fn |-> "check_tweet", tweet |-> tweet,
                      result |-> check_tweet(keywordfilter[1], tweet)])
    /\ Idle

\* KeywordFilter.check_author on one tweet
ProbeAuthor(tweet) ==
    /\ pc = "process_file"
    /\ keywordfilter # None
    /\ probe = None
    /\ probe' = Some([fn |-> "check_author", tweet |-> tweet,
                      result |-> check_author(keywordfilter[1], tweet)])
    /\ Idle

\* KeywordFilter.check_text on one tweet
ProbeText(tweet) ==
    /\ pc = "process_file"
    /\ keywordfilter # None
    /\ probe = None
    /\ probe' = Some([fn |-> "check_text", tweet |-> tweet,
                      result |-> check_text(keywordfilter[1], tweet)])
    /\ Idle

\* record_tweet, extract_entities and record_user on one tweet
ProbeFlatten(tweet) ==
    /\ pc = "process_file"
    /\ probe = None
    /\ probe' = Some([fn |-> "flatten", tweet |-> tweet,
                      result |-> [record_tweet |-> record_tweet(tweet),
                                  extract_entities |-> extract_entities(tweet),
                                  record_user |-> record_user(tweet)]])
    /\ Idle

(* The classifier as main builds it, on tweets with and without the members *)
(* the checks read.                                                         *)

\* the names a caller may ask for: the three checks and one that is none
RequestableFields == <<"author", "text", "entities", "hashtags">>

\* filters: None, or a list of names
FilterArgs ==
    {SelectSeq(RequestableFields, LAMBDA f : f \in S) :
        S \in SUBSET Range(RequestableFields)}

ClassifierArgs ==
    {[keywords |-> k, flag |-> "contains_keyword", do_filter |-> d,
      filters |-> f] :
        k \in {<<>>, <<str_a>>, <<str_b, str_a>>},
        d \in BOOLEAN, f \in FilterArgs}

hashtag_a == [text |-> <<"A">>]
mention_a == [screen_name |-> str_a, id_str |-> <<"8">>]
user_a == [id_str |-> <<"9">>, screen_name |-> str_a]

ClassifierTweets ==
    BaseTweets \cup
    { \* the author's screen name is the keyword
      [id_str |-> <<"4">>, text |-> str_b, truncated |-> FALSE,
       user |-> user_a],
      \* a hashtag is the keyword, in upper case
      [id_str |-> <<"5">>, text |-> str_b, truncated |-> FALSE,
       user |-> user_1,
       entities |-> [hashtags |-> <<hashtag_a>>, user_mentions |-> <<>>]],
      \* a mention is the keyword
      [id_str |-> <<"5">>, text |-> str_b, truncated |-> FALSE,
       user |-> user_1,
       entities |-> [hashtags |-> <<>>, user_mentions |-> <<mention_a>>]],
      \* truncated, the keyword in the full text only
      [id_str |-> <<"6">>, text |-> str_b, truncated |-> TRUE,
       user |-> user_1, extended_tweet |-> [full_text |-> <<"b", "a">>]],
      \* truncated, no extended container
      [id_str |-> <<"6">>, text |-> str_a, truncated |-> TRUE,
       user |-> user_1],
      \* no truncated flag
      [id_str |-> <<"6">>, text |-> str_a, user |-> user_1],
      \* an object that is no tweet
      [limit |-> <<"1">>] }

NextClassifier ==
    \/ \E args \in ClassifierArgs : Construct(args)
    \/ NoKeywordFile
    \/ \E tweet \in ClassifierTweets : ProbeRetain(tweet)
    \/ \E tweet \in ClassifierTweets : ProbeMatches(tweet)

\* main's entry state, on an empty file
InitClassifier == Init /\ file = <<>>

SpecClassifier == InitClassifier /\ [][NextClassifier]_vars

(* check_author over all short keywords and screen names.                  *)

AuthorChars == {"a", "A", " "}

AuthorTweets ==
    {[user |-> u] :
        u \in OptKey("screen_name", Strings(AuthorChars, MaxLen))}
    \cup {[id_str |-> <<"1">>]}

InitAuthor ==
    \E k \in KeywordLists(AuthorChars) :
        InitWith(Some(KeywordFilter(k, "contains_keyword", TRUE, <<"author">>)),
                 <<"author">>)

NextAuthor ==
    \/ \E tweet \in AuthorTweets : ProbeAuthor(tweet)
    \/ \E tweet \in AuthorTweets : ProbeRetain(tweet)

SpecAuthor == InitAuthor /\ [][NextAuthor]_vars

(* check_text over all short keywords and texts.                           *)

TextChars == {"a", "A", "b"}

\* no truncated flag; not truncated, any primary text or none; truncated,
\* any full text, no full text or no extended container
TextTweets ==
    {[text |-> str_a]}
    \cup {x @@ e @@ [truncated |-> FALSE] :
            x \in OptKey("text", Strings(TextChars, MaxLen)),
            e \in OptKey("extended_tweet", {[full_text |-> str_a]})}
    \cup {x @@ e @@ [truncated |-> TRUE] :
            x \in OptKey("text", {str_a, str_b}),
            e \in OptKey("extended_tweet",
                         OptKey("full_text", Strings(TextChars, MaxLen)))}

InitText ==
    \E k \in KeywordLists(TextChars) :
        InitWith(Some(KeywordFilter(k, "contains_keyword", TRUE, <<"text">>)),
                 <<"text">>)

NextText == \E tweet \in TextTweets : ProbeText(tweet)

SpecText == InitText /\ [][NextText]_vars

(* The flattener over tweets with any of their members absent.             *)

url_1 == [expanded_url |-> <<"u">>]
entities_1 == [hashtags |-> <<hashtag_a>>, user_mentions |-> <<mention_a>>,
               urls |-> <<url_1>>]
entities_2 == [hashtags |-> <<[text |-> str_b]>>]
\* two hashtags and two mentions at one level
entities_3 == [hashtags |-> <<[text |-> str_b], hashtag_a>>,
               user_mentions |-> <<mention_a,
                                   [screen_name |-> str_b, id_str |-> <<"9">>]>>]

FlattenTweets ==
    {i @@ x @@ t @@ u @@ e @@ w @@ r :
        i \in OptKey("id_str", {<<"1">>}),
        x \in OptKey("text", {str_a}),
        t \in OptKey("truncated", BOOLEAN),
        u \in OptKey("user", {<<>>, user_1}),
        e \in OptKey("entities", {<<>>, entities_1}),
        w \in OptKey("extended_tweet",
                     {f @@ g @@ h :
                        f \in OptKey("full_text", {<<"b", "a">>}),
                        g \in OptKey("entities", {entities_2, entities_3}),
                        h \in OptKey("extended_entities", {entities_1})}),
        r \in OptKey("retweeted_status", {TweetHit})}

InitFlatten == InitWith(None, None)

NextFlatten == \E tweet \in FlattenTweets : ProbeFlatten(tweet)

SpecFlatten == InitFlatten /\ [][NextFlatten]_vars

---------------------------------------------------------------------------
(* Vocabulary of the properties.                                           *)

IsPrefix(p, q) == Len(p) <= Len(q) /\ SubSeq(q, 1, Len(p)) = p
IsProperPrefix(p, q) == Len(p) < Len(q) /\ IsPrefix(p, q)

\* p comes before q in a walk that visits a tweet, then what its retweeted
\* status embeds, then what its quoted status embeds
PreBefore(p, q) ==
    \/ IsProperPrefix(p, q)
    \/ \E k \in 1..Len(p) :
          /\ k <= Len(q)
          /\ SubSeq(p, 1, k - 1) = SubSeq(q, 1, k - 1)
          /\ p[k] = "retweeted_status"
          /\ q[k] = "quoted_status"

\* the paths of the tweet objects nested in a tweet
RECURSIVE PathsOf(_)
PathsOf(tweet) ==
    {<<>>} \cup
    (IF ~IsDict(tweet) THEN {}
     ELSE UNION {{<<f>> \o p : p \in PathsOf(tweet[f])} :
                 f \in Range(TWEET_REF_FIELDS) \cap DOMAIN tweet})

RECURSIVE Walk(_, _)
Walk(tweet, path) ==
    IF path = <<>> THEN tweet ELSE Walk(tweet[Head(path)], Tail(path))

\* the lines read so far that decoded, and the tweets nested in them
DecodedLines == {i \in 1..lineno : file[i].valid}
PathsAt(i) == PathsOf(file[i].value)
TweetAt(i, p) == Walk(file[i].value, p)

\* line i has been dealt with: process_file is past it
LineOver(i) == i < lineno \/ (i = lineno /\ pc \in {"process_file", "done"})

\* should_retain: no rule, or the rule's decision
Retained(tweet) ==
    keywordfilter = None \/ decide_write(keywordfilter[1], tweet) = Ok(TRUE)
Dropped(tweet) ==
    keywordfilter # None /\ decide_write(keywordfilter[1], tweet) = Ok(FALSE)

\* a record row was written for the tweet at path p of line i
Emitted(i, p) ==
    \E k \in 1..Len(writes) :
        ~writes[k].is_user /\ writes[k].line = i /\ writes[k].path = p
Called(i, p) == \E k \in 1..Len(called) : called[k] = <<i, p>>

\* the k-th write is the n-th row written to its file
RowIndex(k) ==
    Cardinality({j \in 1..k : writes[j].is_user = writes[k].is_user})

---------------------------------------------------------------------------
(* C2: a tweet that is not retained emits nothing, and nothing it embeds   *)
(* is processed or emitted.                                                *)

\* C2: when should_retain is false for a tweet, no row is written for it or
\* for a tweet nested in it at any depth, and process_tweet is called on none
\* of the tweets nested in it.
C2_DroppedEmitsNothing ==
    \A i \in DecodedLines : \A p \in PathsAt(i) :
        Dropped(TweetAt(i, p)) =>
            /\ \A k \in 1..Len(writes) :
                  ~(writes[k].line = i /\ IsPrefix(p, writes[k].path))
            /\ \A k \in 1..Len(called) :
                  ~(called[k][1] = i /\ IsProperPrefix(p, called[k][2]))

\* a dropped tweet that embeds a tweet the rule would retain was processed
C2_Witness ==
    /\ pc = "done"
    /\ \E i \in DecodedLines :
          /\ IsDict(file[i].value)
          /\ Called(i, <<>>)
          /\ Dropped(file[i].value)
          /\ \E p \in PathsAt(i) : p # <<>> /\ Retained(TweetAt(i, p))
                                   /\ ~Dropped(TweetAt(i, p))

---------------------------------------------------------------------------
(* C3: when an embedded tweet's record appears.                            *)

\* the reference fields of every record row hold the id_str of the embedded
\* tweet (before the files are deduplicated)
RefFieldsHoldIds ==
    pc # "done" =>
        \A k \in 1..Len(writes) :
            ~writes[k].is_user =>
                LET tweet == TweetAt(writes[k].line, writes[k].path)
                    row == tweets_csv[1][RowIndex(k)]
                IN  \A f \in Range(TWEET_REF_FIELDS) :
                        row[f] = IF f \in DOMAIN tweet
                                    /\ "id_str" \in DOMAIN tweet[f]
                                 THEN tweet[f]["id_str"] ELSE <<>>

\* C3 as stated, read on the lines that were processed without an error:
\* once such a line has been dealt with, the record of each tweet embedded
\* in it was emitted if and only if should_retain is true for that embedded
\* tweet itself; and the reference fields hold ids.
C3_EmbeddedIffItselfRetained ==
    /\ \A i \in DecodedLines \ failed : LineOver(i) =>
          \A p \in PathsAt(i) \ {<<>>} :
              Emitted(i, p) <=> Retained(TweetAt(i, p))
    /\ RefFieldsHoldIds

\* the tweet at p would be visited if nothing raised: all that enclose it
\* are retained
Reachable(i, p) ==
    \A q \in PathsAt(i) : IsProperPrefix(q, p) => Retained(TweetAt(i, q))

\* visiting the tweet at q raises: in the classifier, or in the flattening
\* of a retained tweet
Raises(i, q) ==
    LET tweet == TweetAt(i, q)
    IN  \/ Raised(write_record(keywordfilter, tweet))
        \/ Retained(tweet) /\ Raised(flatten(keywordfilter, tweet))

\* an error ends the line before the record of the tweet at p is written
RaisedBefore(i, p) ==
    \E q \in PathsAt(i) :
        (q = p \/ PreBefore(q, p)) /\ Reachable(i, q) /\ Raises(i, q)

\* C3, amended: once a line has been dealt with, the record of each tweet
\* embedded in it was emitted if and only if should_retain is true for it
\* and for every tweet that encloses it, and no error was raised on the line
\* before its record was written; and the reference fields hold ids.
C3_EmbeddedIffChainRetained ==
    /\ \A i \in DecodedLines : LineOver(i) =>
          \A p \in PathsAt(i) \ {<<>>} :
              Emitted(i, p) <=>
                  /\ Reachable(i, p)
                  /\ Retained(TweetAt(i, p))
                  /\ ~RaisedBefore(i, p)
    /\ RefFieldsHoldIds

\* an embedded tweet was emitted under a filtering rule, with its id in the
\* record of the tweet that embeds it
C3_Witness ==
    /\ pc = "process_file"
    /\ keywordfilter # None /\ keywordfilter[1].do_filter
    /\ \E i \in DecodedLines :
          /\ Emitted(i, <<"retweeted_status">>)
          /\ \E k \in 1..Len(writes) :
                /\ ~writes[k].is_user /\ writes[k].line = i
                /\ writes[k].path = <<>>
                /\ tweets_csv[1][RowIndex(k)]["retweeted_status"]
                       = file[i].value["retweeted_status"]["id_str"]

---------------------------------------------------------------------------
(* C4: the order of the writes of one line.                                *)

---------------------------------------------------------------------------
(* C5: process_tweet terminates.                                           *)

\* each frame is one level deeper than its caller, on a tweet embedded in the
\* caller's tweet; no tweet object is processed twice; the calls made for a
\* line are no more than the tweet objects nested in it
C5_CallsBounded ==
    /\ \A k \in 1..Len(stack) :
          /\ Len(stack[k].path) = k - 1
          /\ k > 1 => /\ IsProperPrefix(stack[k - 1].path, stack[k].path)
                      /\ stack[k].tweet
                           = stack[k - 1].tweet[stack[k].path[k - 1]]
    /\ \A j, k \in 1..Len(called) : j # k => called[j] # called[k]
    /\ \A i \in DecodedLines :
          /\ \A k \in 1..Len(called) :
                called[k][1] = i => called[k][2] \in PathsAt(i)
          /\ Cardinality({k \in 1..Len(called) : called[k][1] = i})
                <= SizeOf(file[i].value)

\* the work left in the running call of process_file's loop: three units for
\* each tweet object of the line not yet called, two for a frame that has
\* not decided yet, one for a frame in its loop
WorkLeft ==
    3 * (SizeOf(file[lineno].value)
            - Cardinality({k \in 1..Len(called) : called[k][1] = lineno}))
    + Cardinality({k \in 1..Len(stack) : stack[k].at = "enter"})
    + Len(stack)

\* C5: process_tweet terminates on every (finite, acyclic) tweet: the calls
\* go strictly deeper, no embedded object is processed twice, their number is
\* at most the number of tweet objects in the line, and while process_tweet
\* runs it can always take a step and each step either returns to
\* process_file or lowers WorkLeft, which is never negative.
C5_Terminates ==
    /\ []C5_CallsBounded
    /\ [](pc = "process_tweet" =>
            WorkLeft >= 0 /\ ENABLED (Enter \/ Recurse \/ Return))
    /\ [][pc = "process_tweet" =>
            (pc' # "process_tweet" \/ WorkLeft' < WorkLeft)]_vars

\* the calls for a line with embedded tweets at two levels have returned
C5_Witness ==
    /\ pc = "process_file"
    /\ \E i \in DecodedLines :
          Called(i, <<"retweeted_status", "quoted_status">>)

---------------------------------------------------------------------------
(* C6: a failing line does not stop the file.                              *)

NoDuplicates(csv) ==
    csv # None =>
        \A j, k \in 1..Len(csv[1]) : j # k => csv[1][j] # csv[1][k]

\* C6: process_file ends only after every line has been read, each line
\* that decodes has been handed to process_tweet, whichever lines failed,
\* and both files have been deduplicated.
C6_FailureDoesNotStopFile ==
    pc = "done" =>
        /\ lineno = Len(file)
        /\ \A i \in 1..Len(file) : file[i].valid => Called(i, <<>>)
        /\ failed \subseteq 1..Len(file)
        /\ NoDuplicates(tweets_csv)
        /\ NoDuplicates(users_csv)

\* a line failed and a later line was processed and written
C6_Witness ==
    /\ pc = "done"
    /\ \E i \in failed : \E j \in DecodedLines : i < j /\ Emitted(j, <<>>)

---------------------------------------------------------------------------
(* C1: the retention table.                                                *)

\* some check enabled in the rule matches the tweet
SomeEnabledCheckMatches(kf, tweet) ==
    \E i \in 1..Len(kf.filters) :
        apply_filter(kf, kf.filters[i], tweet) = Ok(TRUE)

\* a tweet with its id, its text, its truncated flag and its author
IsTweet(t) ==
    /\ {"id_str", "text", "truncated", "user"} \subseteq DOMAIN t
    /\ "screen_name" \in DOMAIN t["user"]

\* C1: for every tweet and every configuration the decision is the table's:
\* retained with no rule; retained with a rule that does not filter; with a
\* rule that filters, retained exactly when some enabled check matches.
\* (Stated for the tweets that have an id, a text, a truncated flag and an
\* author.)
C1_RetentionTable ==
    (probe # None /\ probe[1].fn = "write_record" /\ IsTweet(probe[1].tweet)) =>
        probe[1].result =
            Ok(IF keywordfilter = None THEN TRUE
               ELSE IF ~keywordfilter[1].do_filter THEN TRUE
               ELSE SomeEnabledCheckMatches(keywordfilter[1], probe[1].tweet))

---------------------------------------------------------------------------
(* C7: flattening a tweet with absent members.                             *)

\* C7: record_tweet, extract_entities and record_user complete normally on
\* every tweet object, whichever of its optional members are absent.
\* (Stated for the objects that have an id, a text and a truncated flag.)
C7_FlattenNeverRaises ==
    (/\ probe # None
     /\ probe[1].fn = "flatten"
     /\ {"id_str", "text", "truncated"} \subseteq DOMAIN probe[1].tweet) =>
        /\ ~Raised(probe[1].result.record_tweet)
        /\ ~Raised(probe[1].result.extract_entities)
        /\ ~Raised(probe[1].result.record_user)

---------------------------------------------------------------------------
(* C8: an unknown check name.                                              *)

\* C8: no KeywordFilter exists that was asked for a check name outside
\* author, text, entities: its active checks are the requested ones.
C8_UnknownFieldRejected ==
    (keywordfilter # None /\ Truthy(requested)) =>
        /\ Range(requested) \subseteq {"author", "text", "entities"}
        /\ Range(keywordfilter[1].filters) = Range(requested)

---------------------------------------------------------------------------
(* C9: check_author.                                                       *)

\* s without its spaces is t
RECURSIVE SameButSpaces(_, _)
SameButSpaces(s, t) ==
    IF s = <<>> THEN t = <<>>
    ELSE IF Head(s) = " " THEN SameButSpaces(Tail(s), t)
    ELSE t # <<>> /\ Head(s) = Head(t) /\ SameButSpaces(Tail(s), Tail(t))

\* a call of check_author, or of the decision under a filtering rule with
\* the author check alone, on a tweet whose author has a screen name
AuthorProbe ==
    /\ probe # None
    /\ probe[1].fn \in {"check_author", "write_record"}
    /\ "user" \in DOMAIN probe[1].tweet
    /\ "screen_name" \in DOMAIN probe[1].tweet["user"]
    /\ keywordfilter[1].filters = <<"author">>
    /\ keywordfilter[1].do_filter

\* a non-empty string with no space at either end, as from_file leaves a
\* keyword (line.strip())
Stripped(k) == k # <<>> /\ Head(k) # " " /\ k[Len(k)] # " "

\* C9 as stated: the result is true exactly when the screen name, its spaces
\* removed, is equal to some keyword.  (Stated for the keywords and the
\* screen names whose spaces, if any, are internal.)
C9_AuthorNameStripped ==
    (/\ AuthorProbe
     /\ \A k \in Range(keywordfilter[1].keywords) : Stripped(k)
     /\ Stripped(probe[1].tweet["user"]["screen_name"])) =>
        probe[1].result =
            Ok(\E k \in Range(keywordfilter[1].keywords) :
                   SameButSpaces(probe[1].tweet["user"]["screen_name"], k))

\* C9, amended: the result is true exactly when some keyword, its spaces
\* removed, is equal to the screen name, letter case included.
C9_AuthorKeywordStripped ==
    AuthorProbe =>
        probe[1].result =
            Ok(\E k \in Range(keywordfilter[1].keywords) :
                   SameButSpaces(k, probe[1].tweet["user"]["screen_name"]))

\* the rule retains a tweet whose author's name is a keyword without the
\* space the keyword has inside
C9_Witness ==
    /\ AuthorProbe
    /\ probe[1].fn = "write_record"
    /\ probe[1].result = Ok(TRUE)
    /\ probe[1].tweet["user"]["screen_name"] = <<"a", "A">>
    /\ keywordfilter[1].keywords = << <<"a", " ", "A">> >>

---------------------------------------------------------------------------
(* C10: check_text.                                                        *)

\* a call of check_text on a tweet that has its effective text
TextProbe ==
    /\ probe # None
    /\ probe[1].fn = "check_text"
    /\ "truncated" \in DOMAIN probe[1].tweet
    /\ IF probe[1].tweet["truncated"]
       THEN /\ "extended_tweet" \in DOMAIN probe[1].tweet
            /\ "full_text" \in DOMAIN probe[1].tweet["extended_tweet"]
       ELSE "text" \in DOMAIN probe[1].tweet

EffectiveText(tweet) ==
    IF tweet["truncated"] THEN tweet["extended_tweet"]["full_text"]
    ELSE tweet["text"]

\* C10: the result is true exactly when some keyword occurs in the
\* effective text, letter case set aside on both sides.
C10_TextCaseInsensitive ==
    TextProbe =>
        probe[1].result =
            Ok(\E k \in Range(keywordfilter[1].keywords) :
                   str_in(str_lower(k),
                          str_lower(EffectiveText(probe[1].tweet))))

---------------------------------------------------------------------------
(* C11: check_tweet is the OR of the enabled checks.                       *)

\* the checks a rule built with `filters` enables: all of them when filters
\* is None or empty, else those it names
EnabledChecks(filters) ==
    IF filters = <<>> THEN Range(FILTERS)
    ELSE Range(filters) \cap Range(FILTERS)

\* a call of check_tweet
MatchesProbe == probe # None /\ probe[1].fn = "check_tweet"

\* C11: check_tweet gives the OR of the checks the rule enables and of no
\* other: when the enabled checks all return, the result is true exactly
\* when one of them is, whatever a check that is not enabled would return or
\* raise; the call raises only what an enabled check raises.
C11_MatchesIsOrOfEnabled ==
    MatchesProbe =>
        LET kf == keywordfilter[1]
            tweet == probe[1].tweet
            enabled == EnabledChecks(requested)
        IN  IF \A f \in enabled : ~Raised(apply_filter(kf, f, tweet))
            THEN probe[1].result =
                    Ok(\E f \in enabled : apply_filter(kf, f, tweet).val)
            ELSE \E f \in enabled :
                    /\ Raised(apply_filter(kf, f, tweet))
                    /\ probe[1].result = apply_filter(kf, f, tweet)

\* with the entities check alone, a tweet with the keyword in its text and
\* in no hashtag or mention, and without the author the author check reads,
\* gives no match
C11_Witness ==
    /\ MatchesProbe
    /\ requested = <<"entities">>
    /\ probe[1].tweet = TweetNoUser
    /\ check_text(keywordfilter[1], probe[1].tweet) = Ok(TRUE)
    /\ Raised(check_author(keywordfilter[1], probe[1].tweet))
    /\ probe[1].result = Ok(FALSE)

---------------------------------------------------------------------------
(* C12: the order in which extract_entities merges the levels.             *)

\* a call of the flattening functions on a tweet that has its id, its text,
\* its truncated flag and its author
FlattenProbe ==
    /\ probe # None
    /\ probe[1].fn = "flatten"
    /\ {"id_str", "text", "truncated", "user"} \subseteq DOMAIN probe[1].tweet

\* where an entity field comes from: the kind of entity, and its member
EntityKind(field) ==
    CASE field = "urls" -> "urls"
      [] field = "media" -> "media"
      [] field = "hashtags" -> "hashtags"
      [] field = "symbols" -> "symbols"
      [] field \in {"user_id_mentions", "user_screenname_mentions"} ->
            "user_mentions"

EntityKey(field) ==
    CASE field = "urls" -> "expanded_url"
      [] field = "media" -> "media_url"
      [] field \in {"hashtags", "symbols"} -> "text"
      [] field = "user_id_mentions" -> "id_str"
      [] field = "user_screenname_mentions" -> "screen_name"

\* the values of one entity field at one level, in the level's order; the
\* empty sequence when the container, the level or the kind is absent
LevelValues(container, level, field) ==
    IF container = None \/ level \notin DOMAIN container[1] THEN <<>>
    ELSE LET ents == container[1][level]
         IN  IF EntityKind(field) \notin DOMAIN ents THEN <<>>
             ELSE [i \in 1..Len(ents[EntityKind(field)]) |->
                      ents[EntityKind(field)][i][EntityKey(field)]]

\* base level, then extended_tweet.entities, then
\* extended_tweet.extended_entities; the base level alone when the tweet is
\* not truncated
MergedEntities(tweet) ==
    [field \in Range(ENTITY_FIELDS) |->
        LevelValues(Some(tweet), "entities", field)
        \o (IF tweet["truncated"]
            THEN LevelValues(Get(tweet, "extended_tweet"), "entities", field)
                 \o LevelValues(Get(tweet, "extended_tweet"),
                                "extended_entities", field)
            ELSE <<>>)]

\* C12: extract_entities gives, for each entity field, the base-level values
\* followed by those of extended_tweet.entities and then those of
\* extended_tweet.extended_entities when the tweet is truncated, the
\* base-level values alone when it is not; an absent level or kind gives
\* the empty sequence.
C12_EntityMergeOrder ==
    FlattenProbe =>
        probe[1].result.extract_entities = Ok(MergedEntities(probe[1].tweet))

\* the same, for the tweets that are not truncated or carry their extended
\* container
MergeOrderWithContainer ==
    (/\ FlattenProbe
     /\ probe[1].tweet["truncated"] => "extended_tweet" \in DOMAIN probe[1].tweet)
        => probe[1].result.extract_entities
              = Ok(MergedEntities(probe[1].tweet))

\* a truncated tweet with entities at the three levels was flattened; a
\* hashtag of the base level comes again from the last level
MergeOrderWitness ==
    /\ FlattenProbe
    /\ probe[1].tweet["truncated"]
    /\ ~Raised(probe[1].result.extract_entities)
    /\ probe[1].result.extract_entities.val["hashtags"]
          = <<<<"A">>, <<"b">>, <<"A">>, <<"A">>>>

---------------------------------------------------------------------------
(* C13: the keys of the record record_tweet returns.                       *)

\* the schema: the scalar fields, the two reference fields, the entity
\* fields and the owner's id
SchemaKeys ==
    Range(BASIC_FIELDS) \cup {"retweeted_status", "quoted_status"}
        \cup Range(ENTITY_FIELDS) \cup {"user.id_str"}

\* C13: for every tweet, whichever optional members it lacks, record_tweet
\* returns a record whose keys are exactly those of the schema.
C13_RecordHasSchemaKeys ==
    FlattenProbe =>
        /\ ~Raised(probe[1].result.record_tweet)
        /\ DOMAIN probe[1].result.record_tweet.val.record = SchemaKeys

\* the same, for the tweets on which record_tweet returns
SchemaKeysWhenReturned ==
    (/\ probe # None
     /\ probe[1].fn = "flatten"
     /\ ~Raised(probe[1].result.record_tweet))
        => DOMAIN probe[1].result.record_tweet.val.record = SchemaKeys

---------------------------------------------------------------------------
(* C14: the flag field of the emitted records.                             *)

\* str(True), str(False)
BoolText(b) == IF b THEN <<"T", "r", "u", "e">> ELSE <<"F", "a", "l", "s", "e">>

\* the record rows written so far, each with the tweet it was written for
\* (read before the files are deduplicated)
RecordWrites == {k \in 1..Len(writes) : ~writes[k].is_user}
WrittenTweet(k) == TweetAt(writes[k].line, writes[k].path)
WrittenRow(k) == tweets_csv[1][RowIndex(k)]

\* C14: with a rule, the flag field of every emitted record is what
\* check_tweet gives for the tweet of that record; with no rule, no record
\* has a flag field.  With no rule, and with a rule that only annotates,
\* every tweet process_tweet is called on is retained, matching or not: its
\* record is written unless the call raises on that tweet.
C14_FlagIsMatches ==
    (pc \notin {"main", "done"}) =>
        /\ \A k \in RecordWrites :
              IF keywordfilter # None
              THEN /\ keywordfilter[1].flag \in DOMAIN WrittenRow(k)
                   /\ check_tweet(keywordfilter[1], WrittenTweet(k))
                        \in {Ok(TRUE), Ok(FALSE)}
                   /\ WrittenRow(k)[keywordfilter[1].flag]
                        = BoolText(check_tweet(keywordfilter[1],
                                               WrittenTweet(k)).val)
              ELSE DOMAIN WrittenRow(k) = Range(FIELDNAMES)
        /\ (keywordfilter = None \/ ~keywordfilter[1].do_filter) =>
              \A i \in DecodedLines : \A p \in PathsAt(i) :
                  (Called(i, p) /\ LineOver(i)) =>
                      Emitted(i, p) \/ Raises(i, p)

\* under a rule that only annotates, a tweet that does not match was
\* written with the flag False and the tweet it embeds, which matches, with
\* the flag True
C14_Witness ==
    /\ pc = "process_file"
    /\ keywordfilter # None
    /\ ~keywordfilter[1].do_filter
    /\ \E j, k \in RecordWrites :
          /\ writes[j].line = writes[k].line
          /\ writes[j].path = <<>>
          /\ writes[k].path = <<"quoted_status">>
          /\ WrittenRow(j)["contains_keyword"] = BoolText(FALSE)
          /\ WrittenRow(k)["contains_keyword"] = BoolText(TRUE)

\* with no rule, a line was written whole, the tweet that holds no keyword
\* too
C14_WitnessNoRule ==
    /\ pc = "process_file"
    /\ keywordfilter = None
    /\ \E k \in RecordWrites : WrittenTweet(k) = TweetMiss

---------------------------------------------------------------------------
(* C16: record rows and user rows come in pairs.                           *)

\* the rows of a file; none when the file does not exist
RowsOf(csv) == IF csv = None THEN <<>> ELSE csv[1]

\* C16: before the files are deduplicated, whichever lines failed, the two
\* files hold the same number of rows, the n-th record row and the n-th user
\* row were written one right after the other for the same tweet, and the
\* record's user.id_str is the user row's user.id_str, the id of the
\* tweet's author.
C16_RowsPaired ==
    (pc # "done") =>
        /\ Len(RowsOf(tweets_csv)) = Len(RowsOf(users_csv))
        /\ Len(writes) = 2 * Len(RowsOf(tweets_csv))
        /\ \A n \in 1..Len(RowsOf(tweets_csv)) :
              /\ ~writes[2 * n - 1].is_user
              /\ writes[2 * n].is_user
              /\ writes[2 * n].line = writes[2 * n - 1].line
              /\ writes[2 * n].path = writes[2 * n - 1].path
              /\ RowsOf(tweets_csv)[n]["user.id_str"]
                    = RowsOf(users_csv)[n]["user.id_str"]
              /\ LET user == WrittenTweet(2 * n)["user"]
                 IN  RowsOf(users_csv)[n]["user.id_str"]
                        = IF "id_str" \in DOMAIN user THEN user["id_str"]
                          ELSE <<>>

\* a line failed after a record and its user row had been written for it,
\* and a later line was written
C16_Witness ==
    /\ pc = "process_file"
    /\ \E i \in failed : \E j \in DecodedLines :
          /\ Emitted(i, <<>>)
          /\ i < j
          /\ Emitted(j, <<>>)
    /\ RowsOf(tweets_csv)[1]["user.id_str"] = <<"7">>

---------------------------------------------------------------------------
(* C17: under a filtering rule every written record is flagged True.       *)

\* C17: when the rule filters, every record row of the file, at every
\* nesting depth, before and after deduplication, has the flag True.
C17_FilteredRowsFlagged ==
    (keywordfilter # None /\ keywordfilter[1].do_filter) =>
        \A n \in 1..Len(RowsOf(tweets_csv)) :
            /\ keywordfilter[1].flag \in DOMAIN RowsOf(tweets_csv)[n]
            /\ RowsOf(tweets_csv)[n][keywordfilter[1].flag] = BoolText(TRUE)

\* under a filtering rule a tweet, the tweet it embeds and the tweet that
\* one embeds were written, and the deduplicated file holds their rows
C17_Witness ==
    /\ pc = "done"
    /\ keywordfilter # None
    /\ keywordfilter[1].do_filter
    /\ \E i \in DecodedLines :
          Emitted(i, <<"retweeted_status", "quoted_status">>)
    /\ Len(RowsOf(tweets_csv)) >= 2

---------------------------------------------------------------------------
(* C15: what a failing line leaves in the output.                          *)

\* every tweet of line i has its author member
AllHaveUser(i) ==
    \A p \in PathsAt(i) : "user" \in DOMAIN TweetAt(i, p)

\* C15 as stated: a line whose processing raised, at whichever of its
\* tweets, has no row in the output.  (Stated for the lines whose tweets
\* all have an author member.)
C15_FailedLineWritesNothing ==
    \A i \in failed :
        (file[i].valid /\ AllHaveUser(i)) =>
            \A k \in 1..Len(writes) : writes[k].line # i

\* C15, amended: a line fails exactly when it does not decode or the visit
\* of one of its tweets raises; the tweet at which it raised and the tweets
\* after it in the walk have no row, and the rows written before for the
\* retained tweets of the line stay in the files.
C15_FailedLineKeepsEarlierRows ==
    /\ \A i \in 1..lineno : LineOver(i) =>
          IF ~file[i].valid
          THEN /\ i \in failed
               /\ \A k \in 1..Len(writes) : writes[k].line # i
          ELSE /\ i \in failed <=>
                     \E q \in PathsAt(i) : Reachable(i, q) /\ Raises(i, q)
               /\ \A p \in PathsAt(i) :
                     Emitted(i, p) <=>
                         /\ Reachable(i, p)
                         /\ Retained(TweetAt(i, p))
                         /\ ~RaisedBefore(i, p)
    /\ (pc # "done") =>
          /\ Len(RowsOf(tweets_csv)) = Cardinality(RecordWrites)
          /\ \A k \in RecordWrites :
                WrittenRow(k)["id_str"] = WrittenTweet(k)["id_str"]

\* a line failed at the tweet its tweet embeds, whose user is no object,
\* and the rows of the enclosing tweet are in the files
C15_Witness ==
    /\ pc = "process_file"
    /\ 1 \in failed
    /\ AllHaveUser(1)
    /\ \E p \in PathsAt(1) : p # <<>> /\ TweetAt(1, p) = TweetBadUser
                                /\ Reachable(1, p) /\ Raises(1, p)
    /\ Emitted(1, <<>>)
    /\ Len(RowsOf(tweets_csv)) >= 1
    /\ Len(RowsOf(users_csv)) >= 1

====
